---- MODULE Spec2Model ----
(***************************************************************************)
(* Mail-system auto-updater (AutoUpdaterService) and diagnostics engine    *)
(* (MailDiagnosticsService) of heavenlydrops-ai-manager.                   *)
(*                                                                         *)
(* The services run on one Node.js event loop: the code between two        *)
(* awaits of real I/O is one atomic step, and every await of an external   *)
(* operation (registry fetch, Redis queue pause/resume, database query,    *)
(* network probe, timer) is a point where other callbacks may run.         *)
(* execSync blocks the event loop, so installUpdate is part of the step    *)
(* that calls it.                                                          *)
(***************************************************************************)
EXTENDS Integers, Sequences, FiniteSets, TLC

\* ------------------------------------------------------------------ bounds

\* Accepted update cycles explored in one behaviour.
MaxCycles == 2

\* Maintenance-helper calls explored in one behaviour.
MaxMaintCalls == 4

\* runFullDiagnostics calls in flight per caller, beside the cycle's own.
MaxFanouts == 1

\* Days until expiry explored by the certificate check: -MaxDays..MaxDays.
MaxDays == 16

\* Earlier diagnostics runs in mail_diagnostics when a comparison is made.
MaxPriorRuns == 3

\* ------------------------------------------------------------ program data

\* checkAll: the four version checks, in registration order.
Components == <<"roundcube", "whatsapp-api", "instagram-api", "nestjs-core">>

\* checkRoundcube: the version pinned in docker-compose.mail.yml.
RoundcubePinned == "1.6-apache"

\* Tag names a Docker Hub answer may carry; the ones matching /^\d+\.\d+-apache$/.
TagNames == {"latest", "1.6-apache", "1.7-apache", "1.6.9-apache"}
MatchesApacheTag(t) == t \in {"1.6-apache", "1.7-apache"}

\* tags.find(t => t.match(...)) ?? 'unknown'
RECURSIVE FindApacheTag(_)
FindApacheTag(tags) ==
  IF tags = <<>> THEN "unknown"
  ELSE IF MatchesApacheTag(Head(tags)) THEN Head(tags)
  ELSE FindApacheTag(Tail(tags))

\* checkRoundcube.  ans = [ok |-> fetch and json() succeeded, tags |-> tag names]
CheckRoundcube(ans) ==
  IF ~ans.ok
  THEN [component |-> "roundcube", currentVersion |-> "unknown",
        latestVersion |-> "unknown", updateAvailable |-> FALSE]
  ELSE LET latest == FindApacheTag(ans.tags)
           current == RoundcubePinned
       IN [component |-> "roundcube", currentVersion |-> current,
           latestVersion |-> latest, updateAvailable |-> current # latest]

\* checkNpmPackage.  ans = [ok |-> fetch and json() succeeded,
\*                          version |-> data.version, or "undefined"],
\* installed = version in /app/node_modules/<pkg>/package.json, or "none".
CheckNpmPackage(ans, installed, component) ==
  IF ~ans.ok
  THEN [component |-> component, currentVersion |-> "unknown",
        latestVersion |-> "unknown", updateAvailable |-> FALSE]
  ELSE LET latest == IF ans.version = "undefined" THEN "unknown" ELSE ans.version
           current == IF installed = "none" THEN "unknown" ELSE installed
       IN [component |-> component, currentVersion |-> current,
           latestVersion |-> latest,
           updateAvailable |-> (current # "unknown" /\ current # latest)]

\* Registry answers and installed packages explored by the update cycle.
CycleRoundcubeAnswers ==
  { [ok |-> FALSE, tags |-> <<>>],
    [ok |-> TRUE, tags |-> <<"latest", "1.6-apache">>],
    [ok |-> TRUE, tags |-> <<"latest", "1.7-apache">>] }
CycleNpmAnswers ==
  { [ok |-> FALSE, version |-> "undefined"],
    [ok |-> TRUE, version |-> "1.6.0"],
    [ok |-> TRUE, version |-> "1.7.0"] }
CycleInstalled == {"none", "1.6.0"}

\* checkAll: Promise.all over the four checks, results in registration order.
CheckAll(rc, npm, inst) ==
  [i \in 1..4 |->
     IF i = 1 THEN CheckRoundcube(rc)
     ELSE CheckNpmPackage(npm[i], inst[i], Components[i])]

\* Fault variant of FilterPending: the matches are collected last to first.
RECURSIVE FilterPendingReversed(_)
FilterPendingReversed(checks) ==
  IF checks = <<>> THEN <<>>
  ELSE IF Head(checks).updateAvailable
       THEN FilterPendingReversed(Tail(checks)) \o <<Head(checks)>>
       ELSE FilterPendingReversed(Tail(checks))

\* checks.filter(c => c.updateAvailable)
RECURSIVE FilterPending(_)
FilterPending(checks) ==
  IF checks = <<>> THEN <<>>
  ELSE IF Head(checks).updateAvailable
       THEN <<Head(checks)>> \o FilterPending(Tail(checks))
       ELSE FilterPending(Tail(checks))

\* The values checkAll can settle to under the answers above.
CycleCheckResults ==
  { CheckAll(rc, npm, inst) :
      rc \in CycleRoundcubeAnswers, npm \in [2..4 -> CycleNpmAnswers],
      inst \in [2..4 -> CycleInstalled] }

\* execSafe: the command's output, or the caught error turned into text.
ExecSafe(cmdOk) == IF cmdOk THEN "output" ELSE "EXEC ERROR"

\* installUpdate.  cmds = outcome of each command the component runs (two for
\* roundcube, one npm install otherwise); logOutput is the list of the texts
\* execSafe returned.  execSafe never throws, so the try block always returns.
CommandsOf(component) == IF component = "roundcube" THEN 2 ELSE 1
InstallUpdate(check, cmds) ==
  [component |-> check.component,
   previousVersion |-> check.currentVersion,
   newVersion |-> check.latestVersion,
   success |-> TRUE,
   logOutput |-> [k \in 1..CommandsOf(check.component) |-> ExecSafe(cmds[k])]]

\* saveUpdateHistory: the row inserted for a result.
HistoryRow(result) ==
  [component |-> result.component,
   previous_version |-> result.previousVersion,
   new_version |-> result.newVersion,
   status |-> IF result.success THEN "success" ELSE "failed",
   log_output |-> result.logOutput]

\* setProgress
SetProgress(status, message, progress, component) ==
  [status |-> status, message |-> message, progress |-> progress,
   component |-> component]

Min(a, b) == IF a < b THEN a ELSE b

\* progressStep before the (i)th pending component: 15, then min(+20, 80).
RECURSIVE ProgressStep(_)
ProgressStep(i) == IF i <= 1 THEN 15 ELSE Min(ProgressStep(i - 1) + 20, 80)

\* ------------------------------------------------------------------- state

VARIABLES
  isUpdating,       \* AutoUpdaterService.isUpdating
  updateProgress,   \* AutoUpdaterService.updateProgress
  pc,               \* where the running checkAndInstallAll call is suspended
  pending,          \* checkAndInstallAll: pending
  idx,              \* position of the install loop in pending
  results,          \* checkAndInstallAll: results
  repairAttempts,   \* checkAndInstallAll: repairAttempts
  diagOverall,      \* checkAndInstallAll: diagnosticsReport.overall
  maintenanceMode,  \* MailDiagnosticsService.maintenanceMode
  queuePaused,      \* the email-processing queue is paused
  update_history,   \* rows inserted since the latest accepted trigger
  lastReturn,       \* outcome of the most recent checkAndInstallAll call
  cycles,           \* accepted cycles so far
  diagRuns,         \* runFullDiagnostics calls made by the current cycle
  enterCalls,       \* enterMaintenanceMode calls made by the current cycle
  failedCmds,       \* components whose update command failed in this cycle
  caught,           \* the catch block ran in the current cycle
  dpc,              \* where the running runFullDiagnostics call is suspended
  beforeAfter,      \* runFullDiagnostics: beforeAfter
  settled,          \* Promise.allSettled: the outcome of each check so far
  report,           \* runFullDiagnostics: report
  persistIdx,       \* position of the persist loop in report.checks
  mail_diagnostics, \* rows inserted by the latest diagnostics run
  raised,           \* the latest runFullDiagnostics call ended by an exception
  maintLog,         \* maintenance-helper calls made directly, in order
  response,         \* the latest answer of POST /updater/run
  launch,           \* who called the latest runFullDiagnostics, and the
                    \* maintenance flag at that moment
  fanouts,          \* runFullDiagnostics calls in flight beside the cycle's own
  call,             \* a function applied on its own: the function and its input
  ret               \* the value that application returned

\* The update cycle's own state.
cycleVars == <<isUpdating, updateProgress, pc, pending, idx, results,
               repairAttempts, diagOverall, update_history, lastReturn, cycles,
               diagRuns, enterCalls, failedCmds, caught, response>>
\* The maintenance flag and the queue.
maintVars == <<maintenanceMode, queuePaused>>
\* The diagnostics engine's run.
diagVars == <<dpc, beforeAfter, settled, report, persistIdx, mail_diagnostics,
              raised, launch>>
\* Runs in flight beside the cycle, and functions applied on their own.
sideVars == <<fanouts, call, ret>>

vars == <<cycleVars, maintVars, diagVars, maintLog, sideVars>>

\* Callers of runFullDiagnostics other than a running update cycle.
FanoutOrigins == {"cron", "api"}

\* ------------------------------------------------------ diagnostics: report

Statuses == {"ok", "warning", "error"}

\* Array.prototype.some over a report's checks: the first match ends the scan.
RECURSIVE SomeStatus(_, _)
SomeStatus(checks, st) ==
  IF checks = <<>> THEN FALSE
  ELSE IF Head(checks).status = st THEN TRUE
  ELSE SomeStatus(Tail(checks), st)

\* Fault variant of Overall: a warning is looked for before an error.
OverallWarningFirst(checks) ==
  IF SomeStatus(checks, "warning") THEN "warning"
  ELSE IF SomeStatus(checks, "error") THEN "error"
  ELSE "ok"

\* runFullDiagnostics: the reduction of the checks to the report's overall.
Overall(checks) ==
  IF SomeStatus(checks, "error") THEN "error"
  ELSE IF SomeStatus(checks, "warning") THEN "warning"
  ELSE "ok"

\* The overall values a report of four checks can carry.
ReportOveralls ==
  { Overall([i \in 1..4 |-> [status |-> st[i]]]) : st \in [1..4 -> Statuses] }

\* ------------------------------------------------------ maintenance helpers

\* Fault variant of EnterFlag: the flag is toggled instead of set.
EnterFlagToggles(flag) == ~flag

\* MailDiagnosticsService.enterMaintenanceMode / exitMaintenanceMode: the value
\* the flag takes.
EnterFlag(flag) == TRUE
ExitFlag(flag) == FALSE

\* Fault variant of QueuePause: pause() resolves without pausing the queue.
QueuePauseNever(paused, ok) == paused

\* emailQueue.pause() / resume(): the queue's paused state once the promise
\* settles; a rejected call (Redis unreachable) leaves the queue as it was.
QueuePause(paused, ok) == IF ok THEN TRUE ELSE paused
QueueResume(paused, ok) == IF ok THEN FALSE ELSE paused

\* AutoUpdaterService.exitMaintenanceMode: await emailQueue.resume() comes
\* first, so the flag is cleared only when resume() did not reject.
ExitMaintenance(flag, paused, ok) ==
  [flag |-> IF ok THEN ExitFlag(flag) ELSE flag,
   paused |-> QueueResume(paused, ok)]

\* ------------------------------------------------------ diagnostics: checks

\* runFullDiagnostics: the four checks, in the order of the allSettled array.
CheckNames == <<"smtp_send", "imap_login", "ssl_cert", "roundcube_health">>

\* A DiagnosticCheck: checkType, status and errorMsg ("none": the field is
\* absent); details and durationMs play no part in the control flow.
Check(type, status, msg) == [checkType |-> type, status |-> status, errorMsg |-> msg]

\* checkSmtp / checkImap.  in: credentials missing, the session verified, or
\* an error (refused, timed out) caught by the check.
SessionInputs == {"unconfigured", "verified", "failed"}
CheckSession(type, in) ==
  IF in = "unconfigured" THEN Check(type, "warning", "credentials not configured")
  ELSE IF in = "verified" THEN Check(type, "ok", "none")
  ELSE Check(type, "error", "err.message")
CheckSmtp(in) == CheckSession("smtp_send", in)
CheckImap(in) == CheckSession("imap_login", in)

\* checkSslCertificate.  in = [reachable, days]: days = daysUntilExpiry.
SslDays == {5, 7, 8, 14, 15}
SslInputs == [reachable : BOOLEAN, days : SslDays]
CheckSslCertificate(in) ==
  IF ~in.reachable THEN Check("ssl_cert", "error", "err.message")
  ELSE Check("ssl_cert",
             IF in.days > 14 THEN "ok" ELSE IF in.days > 7 THEN "warning" ELSE "error",
             "none")

\* checkRoundcubeHealth.  in = [reachable, statusCode].
HttpCodes == {200, 204, 302, 404, 500, 503}
HttpInputs == [reachable : BOOLEAN, statusCode : HttpCodes]
CheckRoundcubeHealth(in) ==
  IF ~in.reachable THEN Check("roundcube_health", "error", "err.message")
  ELSE Check("roundcube_health",
             IF in.statusCode = 200 THEN "ok"
             ELSE IF in.statusCode < 500 THEN "warning" ELSE "error",
             "none")

\* The values each check's promise can fulfil with.
ProbeValues(i) ==
  IF i = 1 THEN { CheckSmtp(in) : in \in SessionInputs }
  ELSE IF i = 2 THEN { CheckImap(in) : in \in SessionInputs }
  ELSE IF i = 3 THEN { CheckSslCertificate(in) : in \in SslInputs }
  ELSE { CheckRoundcubeHealth(in) : in \in HttpInputs }

\* A PromiseSettledResult.  The check bodies catch what they await, so a
\* rejection is a failure outside their try block; allSettled and unwrap
\* provide for it.
NotSettled == [state |-> "pending", value |-> Check("none", "none", "none")]
Fulfilled(v) == [state |-> "fulfilled", value |-> v]
Rejected == [state |-> "rejected", value |-> Check("none", "none", "Promise rejected")]
SettleOutcomes(i) == { Fulfilled(v) : v \in ProbeValues(i) } \cup {Rejected}

\* runFullDiagnostics: unwrap
Unwrap(r) ==
  IF r.state = "fulfilled" THEN r.value
  ELSE Check("unknown", "error", r.value.errorMsg)

\* Fault variant of AllSettled: the promise resolves with the first check to
\* settle.
FirstSettled(s) == \E i \in DOMAIN s : s[i].state # "pending"

\* Promise.allSettled: the promise resolves once every check has settled.
AllSettled(s) == \A i \in DOMAIN s : s[i].state # "pending"

\* checks.push(unwrap(smtp), unwrap(imap), unwrap(ssl), unwrap(roundcube)):
\* the settled outcomes, unwrapped, in the order of the array.
RECURSIVE UnwrapAll(_)
UnwrapAll(s) ==
  IF s = <<>> THEN <<>>
  ELSE IF Head(s).state = "pending" THEN UnwrapAll(Tail(s))
  ELSE <<Unwrap(Head(s))>> \o UnwrapAll(Tail(s))

\* attemptRepair: the outcome tag, or "null".
AttemptRepair(check) ==
  CASE check.checkType = "smtp_send" -> "smtp-transporter-reinitialised"
    [] check.checkType = "imap_login" -> "imap-connection-pool-reset"
    [] check.checkType = "ssl_cert" -> "ssl-alert-logged"
    [] check.checkType = "roundcube_health" -> "roundcube-container-auto-restart-pending"
    [] OTHER -> "null"

\* Fault variant of RepairsAttempted: every check that is not ok is repaired.
RECURSIVE RepairsAttemptedNotOk(_)
RepairsAttemptedNotOk(checks) ==
  IF checks = <<>> THEN <<>>
  ELSE LET tag == IF Head(checks).status # "ok"
                  THEN AttemptRepair(Head(checks)) ELSE "null"
       IN (IF tag # "null" THEN <<tag>> ELSE <<>>) \o RepairsAttemptedNotOk(Tail(checks))

\* runFullDiagnostics: the auto-repair loop over the checks.
RECURSIVE RepairsAttempted(_)
RepairsAttempted(checks) ==
  IF checks = <<>> THEN <<>>
  ELSE LET tag == IF Head(checks).status = "error"
                  THEN AttemptRepair(Head(checks)) ELSE "null"
       IN (IF tag # "null" THEN <<tag>> ELSE <<>>) \o RepairsAttempted(Tail(checks))

\* runFullDiagnostics: the report built from the settled checks.
BuildReport(s) ==
  LET checks == UnwrapAll(s) IN
  [overall |-> Overall(checks), checks |-> checks,
   repairsAttempted |-> RepairsAttempted(checks)]

NoReport == [overall |-> "none", checks |-> <<>>, repairsAttempted |-> <<>>]

\* persistCheck: the row inserted for a check.
DiagnosticsRow(check) ==
  [check_type |-> check.checkType, status |-> check.status,
   error_msg |-> check.errorMsg]

\* AutoUpdaterService.enterMaintenanceMode run to its end: the flag is set
\* before emailQueue.pause() is awaited.
EnterMaintenance(flag, paused, ok) ==
  [flag |-> EnterFlag(flag), paused |-> QueuePause(paused, ok)]

\* ------------------------------------------------------------ update cycle

\* Fault variant of Busy: the flag is not consulted.
BusyIgnored == FALSE

\* checkAndInstallAll: the guard of its first statement.
Busy == isUpdating

\* Fault variant of NothingPending: the early return is never taken.
NoEarlyReturn(p) == FALSE

\* checkAndInstallAll: pending.length === 0
NothingPending(p) == Len(p) = 0

\* Fault variant of ShouldRetry: the budget is compared with <=.
ShouldRetryInclusive(overall, attempts) == overall = "error" /\ attempts <= 3

\* checkAndInstallAll: the condition of the repair loop.
ShouldRetry(overall, attempts) == overall = "error" /\ attempts < 3

\* Fault variant of RepairProgress: six points per attempt.
RepairProgressWide(attempts) == 85 + attempts * 6

\* checkAndInstallAll: the percentage shown for a repair attempt.
RepairProgress(attempts) == 85 + attempts * 4

\* Fault variant of FinalProgressStatus: a cycle that does not end ok keeps
\* the status of its last phase.
FinalProgressStatusStale(finalStatus) ==
  IF finalStatus = "ok" THEN "done" ELSE "repairing"

\* checkAndInstallAll: the progress status of the final setProgress.
FinalProgressStatus(finalStatus) == IF finalStatus = "ok" THEN "done" ELSE "failed"

\* Fault variant of FinallyIsUpdating: the flag is cleared after the
\* try/catch instead of in a finally block, so an exception leaving the catch
\* block skips it.
ClearedAfterCatch(threw) == threw

\* Fault variant of FinallyIsUpdating: the flag is cleared only when the call
\* ends by an exception.
FinallySkippedOnReturn(threw) == ~threw

\* checkAndInstallAll: the finally block's assignment to isUpdating.  threw:
\* the call ends by an exception leaving the catch block.
FinallyIsUpdating(threw) == FALSE

\* EmailsController.runUpdater: the body it answers with.  started: the call
\* it made found the orchestrator free and began a cycle.
NoResponse == [status |-> "none", started |-> FALSE]
RunUpdaterResponse(started) == [status |-> "accepted", started |-> started]

\* The caller of a runFullDiagnostics execution and the maintenance flag it
\* was called under.
NoLaunch == [source |-> "none", maintenance |-> FALSE]
Launch(source, flag) == [source |-> source, maintenance |-> flag]

\* No function has been applied on its own.
NoCall == [fn |-> "none"]
NoRet == [fn |-> "none"]

\* The fields of both services after construction.
InitFields ==
  /\ isUpdating = FALSE
  /\ updateProgress = SetProgress("idle", "", 0, "none")
  /\ pc = "idle"
  /\ pending = <<>>
  /\ idx = 0
  /\ results = <<>>
  /\ repairAttempts = 0
  /\ diagOverall = "none"
  /\ maintenanceMode = FALSE
  /\ queuePaused = FALSE
  /\ update_history = <<>>
  /\ lastReturn = "none"
  /\ cycles = 0
  /\ diagRuns = 0
  /\ enterCalls = 0
  /\ failedCmds = {}
  /\ caught = FALSE
  /\ dpc = "idle"
  /\ beforeAfter = FALSE
  /\ settled = [i \in 1..4 |-> NotSettled]
  /\ report = NoReport
  /\ persistIdx = 0
  /\ mail_diagnostics = <<>>
  /\ raised = FALSE
  /\ maintLog = <<>>
  /\ response = NoResponse
  /\ launch = NoLaunch
  /\ fanouts = [o \in FanoutOrigins |-> 0]
  /\ ret = NoRet

Init == InitFields /\ call = NoCall

\* checkAndInstallAll up to its first await (checkAll), or its early return.
CheckAndInstallAll ==
  /\ UNCHANGED <<diagVars, maintLog, sideVars>>
  /\ IF Busy
     THEN /\ lastReturn' = "update-already-in-progress"
          /\ UNCHANGED <<isUpdating, updateProgress, pc, pending, idx, results,
                         repairAttempts, diagOverall, maintenanceMode, queuePaused,
                         update_history, cycles, diagRuns, enterCalls, failedCmds,
                         caught>>
     ELSE /\ cycles < MaxCycles
          /\ isUpdating' = TRUE
          /\ results' = <<>>
          /\ updateProgress' = SetProgress("checking", "checking", 5, "none")
          /\ pc' = "checking"
          /\ pending' = <<>>
          /\ idx' = 0
          /\ repairAttempts' = 0
          /\ diagOverall' = "none"
          /\ update_history' = <<>>
          /\ lastReturn' = "pending"
          /\ cycles' = cycles + 1
          /\ diagRuns' = 0
          /\ enterCalls' = 0
          /\ failedCmds' = {}
          /\ caught' = FALSE
          /\ UNCHANGED <<maintenanceMode, queuePaused>>

\* POST /updater/run: checkAndInstallAll is called and not awaited, and the
\* answer does not look at what the call did.
RunUpdater ==
  /\ CheckAndInstallAll
  /\ response' = RunUpdaterResponse(~Busy)

\* The weekly cron job.
RunScheduledUpdate ==
  /\ CheckAndInstallAll
  /\ UNCHANGED response

\* The catch block up to its await of exitMaintenanceMode.
CatchBlock ==
  /\ updateProgress' = SetProgress("failed", "update-failed", 100, "none")
  /\ caught' = TRUE
  /\ pc' = "catch_resuming"

\* One turn of the install loop up to its await of saveUpdateHistory.
InstallStep(i, cmds) ==
  /\ updateProgress' =
       SetProgress("installing", "installing", ProgressStep(i), pending[i].component)
  /\ results' = Append(results, InstallUpdate(pending[i], cmds))
  /\ failedCmds' = IF \E k \in DOMAIN cmds : ~cmds[k]
                   THEN failedCmds \cup {pending[i].component}
                   ELSE failedCmds
  /\ idx' = i
  /\ pc' = "saving"

\* checkAll settles: Phase 1 ends, and either the cycle is over or Phase 2
\* runs up to the await of emailQueue.pause().
CheckAllDone ==
  /\ UNCHANGED <<diagVars, maintLog, sideVars, response>>
  /\ pc = "checking"
  /\ \E checks \in CycleCheckResults :
       LET p == FilterPending(checks) IN
       IF NothingPending(p)
       THEN /\ updateProgress' = SetProgress("done", "up-to-date", 100, "none")
            /\ lastReturn' = "ok"
            /\ isUpdating' = FinallyIsUpdating(FALSE)
            /\ pc' = "idle"
            /\ UNCHANGED <<pending, maintenanceMode, enterCalls>>
       ELSE /\ updateProgress' =
                 SetProgress("installing", "updates-available", 10, "none")
            /\ pending' = p
            /\ maintenanceMode' = EnterFlag(maintenanceMode)
            /\ enterCalls' = enterCalls + 1
            /\ pc' = "pausing"
            /\ UNCHANGED <<lastReturn, isUpdating>>
  /\ UNCHANGED <<idx, results, repairAttempts, diagOverall, queuePaused,
                 update_history, cycles, diagRuns, failedCmds, caught>>

\* emailQueue.pause() settles: the first turn of the install loop, or the
\* catch block.
PauseDone ==
  /\ UNCHANGED <<diagVars, maintLog, sideVars, response>>
  /\ pc = "pausing"
  /\ \E ok \in BOOLEAN :
       /\ queuePaused' = QueuePause(queuePaused, ok)
       /\ IF ok
          THEN /\ \E cmds \in [1..CommandsOf(pending[1].component) -> BOOLEAN] :
                    InstallStep(1, cmds)
               /\ UNCHANGED caught
          ELSE /\ CatchBlock
               /\ UNCHANGED <<results, failedCmds, idx>>
  /\ UNCHANGED <<isUpdating, pending, repairAttempts, diagOverall,
                 maintenanceMode, update_history, lastReturn, cycles, diagRuns,
                 enterCalls>>

\* The INSERT of saveUpdateHistory settles (an error is caught and logged):
\* the next turn of the loop, or Phase 4 up to the await of emailQueue.resume().
SaveDone ==
  /\ UNCHANGED <<diagVars, maintLog, sideVars, response>>
  /\ pc = "saving"
  /\ \E ok \in BOOLEAN :
       update_history' = IF ok THEN Append(update_history, HistoryRow(results[idx]))
                         ELSE update_history
  /\ IF idx < Len(pending)
     THEN \E cmds \in [1..CommandsOf(pending[idx + 1].component) -> BOOLEAN] :
            InstallStep(idx + 1, cmds)
     ELSE /\ updateProgress' =
               SetProgress("repairing", "post-update-diagnostics", 85, "none")
          /\ pc' = "resuming"
          /\ UNCHANGED <<results, failedCmds, idx>>
  /\ UNCHANGED <<isUpdating, pending, repairAttempts, diagOverall,
                 maintenanceMode, queuePaused, lastReturn, cycles, diagRuns,
                 enterCalls, caught>>

\* emailQueue.resume() of Phase 4 settles: exitMaintenanceMode ends and
\* runFullDiagnostics(true) is called, or the catch block runs.
ResumeDone ==
  /\ UNCHANGED <<diagVars, maintLog, sideVars, response>>
  /\ pc = "resuming"
  /\ \E ok \in BOOLEAN :
       LET after == ExitMaintenance(maintenanceMode, queuePaused, ok) IN
       /\ maintenanceMode' = after.flag
       /\ queuePaused' = after.paused
       /\ IF ok
          THEN /\ diagRuns' = diagRuns + 1
               /\ pc' = "diagnosing"
               /\ UNCHANGED <<updateProgress, caught>>
          ELSE /\ CatchBlock
               /\ UNCHANGED diagRuns
  /\ UNCHANGED <<isUpdating, pending, idx, results, repairAttempts, diagOverall,
                 update_history, lastReturn, cycles, enterCalls, failedCmds>>

\* runFullDiagnostics returns its report, or (beforeAfter only) the query of
\* logBeforeAfterReport rejects: one more repair attempt up to the backoff
\* timer, the final status and the return, or the catch block.
DiagnosticsDone ==
  /\ UNCHANGED <<diagVars, maintLog, sideVars, response>>
  /\ pc = "diagnosing"
  /\ \/ \E overall \in ReportOveralls :
          /\ diagOverall' = overall
          /\ IF ShouldRetry(overall, repairAttempts)
             THEN /\ repairAttempts' = repairAttempts + 1
                  /\ updateProgress' =
                       SetProgress("repairing", "auto-repair",
                                   RepairProgress(repairAttempts + 1), "none")
                  /\ pc' = "backoff"
                  /\ UNCHANGED <<isUpdating, lastReturn>>
             ELSE /\ updateProgress' =
                       SetProgress(FinalProgressStatus(overall),
                                   IF overall = "ok" THEN "stable" ELSE "manual-review",
                                   100, "none")
                  /\ lastReturn' = overall
                  /\ isUpdating' = FinallyIsUpdating(FALSE)
                  /\ pc' = "idle"
                  /\ UNCHANGED repairAttempts
          /\ UNCHANGED caught
     \/ /\ diagRuns = 1
        /\ CatchBlock
        /\ UNCHANGED <<isUpdating, lastReturn, repairAttempts, diagOverall>>
  /\ UNCHANGED <<pending, idx, results, maintenanceMode, queuePaused,
                 update_history, cycles, diagRuns, enterCalls, failedCmds>>

\* The 5 s backoff timer fires: runFullDiagnostics() is called again.
BackoffDone ==
  /\ UNCHANGED <<diagVars, maintLog, sideVars, response>>
  /\ pc = "backoff"
  /\ diagRuns' = diagRuns + 1
  /\ pc' = "diagnosing"
  /\ UNCHANGED <<isUpdating, updateProgress, pending, idx, results,
                 repairAttempts, diagOverall, maintenanceMode, queuePaused,
                 update_history, lastReturn, cycles, enterCalls, failedCmds,
                 caught>>

\* emailQueue.resume() of the catch block settles: the call returns, or the
\* rejection leaves the catch block; the finally block runs either way.
CatchResumeDone ==
  /\ UNCHANGED <<diagVars, maintLog, sideVars, response>>
  /\ pc = "catch_resuming"
  /\ \E ok \in BOOLEAN :
       LET after == ExitMaintenance(maintenanceMode, queuePaused, ok) IN
       /\ maintenanceMode' = after.flag
       /\ queuePaused' = after.paused
       /\ lastReturn' = IF ok THEN "error" ELSE "threw"
       /\ isUpdating' = FinallyIsUpdating(~ok)
  /\ pc' = "idle"
  /\ UNCHANGED <<updateProgress, pending, idx, results, repairAttempts,
                 diagOverall, update_history, cycles, diagRuns, enterCalls,
                 failedCmds, caught>>

\* A continuation of the running cycle.
CycleStep ==
  \/ CheckAllDone
  \/ PauseDone
  \/ SaveDone
  \/ ResumeDone
  \/ DiagnosticsDone
  \/ BackoffDone
  \/ CatchResumeDone

Next ==
  \/ RunUpdater
  \/ RunScheduledUpdate
  \/ CycleStep

\* The update orchestrator: triggers and the cycle they start.
Spec == Init /\ [][Next]_vars

\* The orchestrator when every awaited external operation returns.
FairSpec == Spec /\ WF_vars(CycleStep)

\* The continuations that do not wait for a registry: every await of the
\* cycle but the fetch calls of checkAll.
StepAfterChecking ==
  \/ PauseDone
  \/ SaveDone
  \/ ResumeDone
  \/ DiagnosticsDone
  \/ BackoffDone
  \/ CatchResumeDone

\* The cycle when a registry may stay silent: fetch is called with no timeout
\* and no AbortSignal, so nothing in the program settles checkAll.
FairSpecSilentRegistry == Spec /\ WF_vars(StepAfterChecking)

\* -------------------------------------------------------- diagnostics engine

\* Fault variant of Skipped: the flag is not consulted.
NeverSkipped(flag) == FALSE

\* runScheduledDiagnostics: the early return.
Skipped(flag) == flag

\* runFullDiagnostics up to its await of Promise.allSettled: the four checks
\* are launched.
RunFullDiagnostics(b, source) ==
  /\ dpc = "idle"
  /\ dpc' = "probing"
  /\ beforeAfter' = b
  /\ launch' = Launch(source, maintenanceMode)
  /\ settled' = [i \in 1..4 |-> NotSettled]
  /\ report' = NoReport
  /\ persistIdx' = 0
  /\ mail_diagnostics' = <<>>
  /\ raised' = FALSE

\* The 15-minute cron job: it returns at once in maintenance mode.
RunScheduledDiagnostics ==
  IF Skipped(maintenanceMode)
  THEN UNCHANGED vars
  ELSE /\ RunFullDiagnostics(FALSE, "cron")
       /\ UNCHANGED <<cycleVars, maintVars, maintLog, sideVars>>

\* POST /diagnostics/run
RunDiagnostics ==
  /\ \E b \in BOOLEAN : RunFullDiagnostics(b, "api")
  /\ UNCHANGED <<cycleVars, maintVars, maintLog, sideVars>>

\* One check's promise settles.
ProbeSettle ==
  /\ dpc = "probing"
  /\ \E i \in 1..4 :
       /\ settled[i].state = "pending"
       /\ \E o \in SettleOutcomes(i) : settled' = [settled EXCEPT ![i] = o]
  /\ UNCHANGED <<dpc, beforeAfter, report, persistIdx, mail_diagnostics, raised, launch>>
  /\ UNCHANGED <<cycleVars, maintVars, maintLog, sideVars>>

\* Promise.allSettled resolves: unwrap, the repair loop, the overall status
\* and the report, up to the first await of persistCheck.
DiagnosticsJoin ==
  /\ dpc = "probing"
  /\ AllSettled(settled)
  /\ report' = BuildReport(settled)
  /\ persistIdx' = 1
  /\ dpc' = "persisting"
  /\ UNCHANGED <<beforeAfter, settled, mail_diagnostics, raised, launch>>
  /\ UNCHANGED <<cycleVars, maintVars, maintLog, sideVars>>

\* The INSERT of persistCheck settles (an error is caught and logged): the
\* next check, the await of logBeforeAfterReport's query, or the return.
PersistDone ==
  /\ dpc = "persisting"
  /\ \E ok \in BOOLEAN :
       mail_diagnostics' =
         IF ok THEN Append(mail_diagnostics, DiagnosticsRow(report.checks[persistIdx]))
         ELSE mail_diagnostics
  /\ IF persistIdx < Len(report.checks)
     THEN /\ persistIdx' = persistIdx + 1
          /\ UNCHANGED dpc
     ELSE /\ dpc' = IF beforeAfter THEN "comparing" ELSE "idle"
          /\ UNCHANGED persistIdx
  /\ UNCHANGED <<beforeAfter, settled, report, raised, launch>>
  /\ UNCHANGED <<cycleVars, maintVars, maintLog, sideVars>>

\* The query of logBeforeAfterReport settles: the diff is logged and the
\* report returned, or the rejection leaves runFullDiagnostics.
CompareDone ==
  /\ dpc = "comparing"
  /\ \E ok \in BOOLEAN : raised' = ~ok
  /\ dpc' = "idle"
  /\ UNCHANGED <<beforeAfter, settled, report, persistIdx, mail_diagnostics, launch>>
  /\ UNCHANGED <<cycleVars, maintVars, maintLog, sideVars>>

NextDiag ==
  \/ RunScheduledDiagnostics
  \/ RunDiagnostics
  \/ ProbeSettle
  \/ DiagnosticsJoin
  \/ PersistDone
  \/ CompareDone

\* The diagnostics engine: one run at a time, by either trigger.
SpecDiag == Init /\ [][NextDiag]_vars

\* ------------------------------------------------------- maintenance helpers

\* AutoUpdaterService.enterMaintenanceMode, run to its end.
MaintEnter ==
  /\ Len(maintLog) < MaxMaintCalls
  /\ \E ok \in BOOLEAN :
       LET after == EnterMaintenance(maintenanceMode, queuePaused, ok) IN
       /\ maintenanceMode' = after.flag
       /\ queuePaused' = after.paused
       /\ maintLog' = Append(maintLog, [op |-> "enter", ok |-> ok])
  /\ UNCHANGED <<cycleVars, diagVars, sideVars>>

\* AutoUpdaterService.exitMaintenanceMode, run to its end.
MaintExit ==
  /\ Len(maintLog) < MaxMaintCalls
  /\ \E ok \in BOOLEAN :
       LET after == ExitMaintenance(maintenanceMode, queuePaused, ok) IN
       /\ maintenanceMode' = after.flag
       /\ queuePaused' = after.paused
       /\ maintLog' = Append(maintLog, [op |-> "exit", ok |-> ok])
  /\ UNCHANGED <<cycleVars, diagVars, sideVars>>

NextMaint == MaintEnter \/ MaintExit

\* The maintenance helpers called back to back, in any order.
SpecMaint == Init /\ [][NextMaint]_vars

\* ------------------------------------------- diagnostics under maintenance

\* MailDiagnosticsService.enterMaintenanceMode, called while the engine is
\* idle or in the middle of a run.
EnterMaintenanceMode ==
  /\ maintenanceMode' = EnterFlag(maintenanceMode)
  /\ UNCHANGED <<cycleVars, queuePaused, diagVars, maintLog, sideVars>>

\* MailDiagnosticsService.exitMaintenanceMode
ExitMaintenanceMode ==
  /\ maintenanceMode' = ExitFlag(maintenanceMode)
  /\ UNCHANGED <<cycleVars, queuePaused, diagVars, maintLog, sideVars>>

NextGate ==
  \/ RunScheduledDiagnostics
  \/ RunDiagnostics
  \/ ProbeSettle
  \/ DiagnosticsJoin
  \/ PersistDone
  \/ CompareDone
  \/ EnterMaintenanceMode
  \/ ExitMaintenanceMode

\* The diagnostics engine while the maintenance flag is set and cleared.
SpecGate == Init /\ [][NextGate]_vars

\* ------------------------------------------------- overlapping diagnostics

\* The 15-minute cron job, as a whole run: runFullDiagnostics has no guard of
\* its own, so the call starts whatever else is in flight.
ScheduledDiagnosticsCall ==
  IF Skipped(maintenanceMode)
  THEN UNCHANGED vars
  ELSE /\ fanouts["cron"] < MaxFanouts
       /\ fanouts' = [fanouts EXCEPT !["cron"] = @ + 1]
       /\ UNCHANGED <<cycleVars, maintVars, diagVars, maintLog, call, ret>>

\* POST /diagnostics/run, as a whole run.
DiagnosticsCall ==
  /\ fanouts["api"] < MaxFanouts
  /\ fanouts' = [fanouts EXCEPT !["api"] = @ + 1]
  /\ UNCHANGED <<cycleVars, maintVars, diagVars, maintLog, call, ret>>

\* A run started by the cron job or the controller returns.
DiagnosticsReturn ==
  /\ \E o \in FanoutOrigins :
       /\ fanouts[o] > 0
       /\ fanouts' = [fanouts EXCEPT ![o] = @ - 1]
  /\ UNCHANGED <<cycleVars, maintVars, diagVars, maintLog, call, ret>>

\* runFullDiagnostics executions in flight: the cycle's own run and the others.
FanoutsInFlight ==
  (IF pc = "diagnosing" THEN 1 ELSE 0) + fanouts["cron"] + fanouts["api"]

NextOverlap ==
  \/ Next
  \/ ScheduledDiagnosticsCall
  \/ DiagnosticsCall
  \/ DiagnosticsReturn

\* The update cycle together with the diagnostics runs other callers start.
SpecOverlap == Init /\ [][NextOverlap]_vars

\* ------------------------------------------------ functions on their own

\* Docker Hub answers: up to two tag names, or a failed fetch.
RoundcubeAnswers ==
  {[ok |-> FALSE, tags |-> <<>>]}
    \cup { [ok |-> TRUE, tags |-> t] :
             t \in {<<>>} \cup { <<a>> : a \in TagNames }
                     \cup { <<a, b>> : a \in TagNames, b \in TagNames } }

\* npm registry answers: a version, no version field, or a failed fetch.
NpmAnswers ==
  {[ok |-> FALSE, version |-> "undefined"]}
    \cup { [ok |-> TRUE, version |-> v] : v \in {"undefined", "1.6.0", "1.7.0"} }
InstalledVersions == {"none", "1.6.0", "1.7.0"}

\* Whole days until the certificate expires; negative once it has expired.
CertDays == (0 - MaxDays)..MaxDays

\* Final status codes an HTTP GET of Roundcube may end with.
ProbeCodes == {200, 201, 204, 299, 300, 301, 302, 399, 400, 404, 499, 500, 503, 599}

\* logBeforeAfterReport: LIMIT 10
QueryLimit == 10

\* A row of mail_diagnostics as the query of logBeforeAfterReport sees it.
\* old: checked_at < now() - interval '1 minute'.
DiagRow(type, status, old) == [check_type |-> type, status |-> status, old |-> old]

\* The rows of one run, newest first: persistCheck inserts them in check
\* order.  run = [status, old]: every check of the run had that status.
RunRows(run) == [k \in 1..4 |-> DiagRow(CheckNames[5 - k], run.status, run.old)]

\* mail_diagnostics ordered by checked_at DESC, runs given newest first.
RECURSIVE TableRows(_)
TableRows(runs) ==
  IF runs = <<>> THEN <<>> ELSE RunRows(Head(runs)) \o TableRows(Tail(runs))

\* WHERE checked_at < now() - interval '1 minute' ORDER BY checked_at DESC
\* LIMIT 10
Query(table) ==
  LET olds == SelectSeq(table, LAMBDA r : r.old)
  IN SubSeq(olds, 1, Min(Len(olds), QueryLimit))

\* Object.fromEntries(prev.map(r => [r.check_type, r.status])): a later pair
\* replaces an earlier one with the same key.
FromEntries(rows) ==
  [t \in {CheckNames[k] : k \in DOMAIN CheckNames} |->
     LET hits == { k \in DOMAIN rows : rows[k].check_type = t }
     IN IF hits = {} THEN "undefined"
        ELSE rows[CHOOSE k \in hits : \A h \in hits : k >= h].status]

\* prevMap[check.checkType] ?? 'unknown'
Before(prevMap, type) ==
  IF prevMap[type] = "undefined" THEN "unknown" ELSE prevMap[type]

\* logBeforeAfterReport: the lines of the diff, one per check whose status is
\* not the one found before.
RECURSIVE DiffLines(_, _)
DiffLines(checks, prevMap) ==
  IF checks = <<>> THEN <<>>
  ELSE LET check == Head(checks)
           before == Before(prevMap, check.checkType)
       IN (IF before # check.status
           THEN << [checkType |-> check.checkType, before |-> before,
                    after |-> check.status] >>
           ELSE <<>>) \o DiffLines(Tail(checks), prevMap)

\* logBeforeAfterReport, its query answered with the rows of table.
LogBeforeAfterReport(table, checks) ==
  LET prevMap == FromEntries(Query(table))
  IN [before |-> [t \in DOMAIN prevMap |-> Before(prevMap, t)],
      diff |-> DiffLines(checks, prevMap)]

\* Earlier runs, newest first: each with one status for its four checks, and
\* whether it is more than a minute old; a run is no younger than a newer one.
PriorRuns ==
  { runs \in UNION { [1..n -> [status : Statuses, old : BOOLEAN]] : n \in 0..MaxPriorRuns } :
      \A i, j \in DOMAIN runs : (i < j /\ runs[i].old) => runs[j].old }

\* The applications explored: each version check, two health checks and the
\* before/after comparison.
PureCalls ==
  { [fn |-> "checkRoundcube", ans |-> a] : a \in RoundcubeAnswers }
    \cup { [fn |-> "checkNpmPackage", ans |-> a, installed |-> i, component |-> c] :
             a \in NpmAnswers, i \in InstalledVersions,
             c \in {"whatsapp-api", "instagram-api", "nestjs-core"} }
    \cup { [fn |-> "checkSslCertificate", in |-> [reachable |-> r, days |-> d]] :
             r \in BOOLEAN, d \in CertDays }
    \cup { [fn |-> "checkRoundcubeHealth", in |-> [reachable |-> r, statusCode |-> c]] :
             r \in BOOLEAN, c \in ProbeCodes }
    \cup { [fn |-> "logBeforeAfterReport", runs |-> runs, after |-> st] :
             runs \in PriorRuns, st \in Statuses }

InitPure == InitFields /\ call \in PureCalls

\* checkRoundcube applied to a Docker Hub answer.
ApplyCheckRoundcube ==
  /\ call.fn = "checkRoundcube"
  /\ ret = NoRet
  /\ ret' = [fn |-> call.fn, value |-> CheckRoundcube(call.ans)]
  /\ UNCHANGED <<cycleVars, maintVars, diagVars, maintLog, fanouts, call>>

\* checkNpmPackage applied to a registry answer and an installed package.
ApplyCheckNpmPackage ==
  /\ call.fn = "checkNpmPackage"
  /\ ret = NoRet
  /\ ret' = [fn |-> call.fn,
             value |-> CheckNpmPackage(call.ans, call.installed, call.component)]
  /\ UNCHANGED <<cycleVars, maintVars, diagVars, maintLog, fanouts, call>>

\* checkSslCertificate applied to a peer certificate, and the report
\* runFullDiagnostics builds from it when the other three checks are healthy.
ApplyCheckSslCertificate ==
  /\ call.fn = "checkSslCertificate"
  /\ ret = NoRet
  /\ LET check == CheckSslCertificate(call.in) IN
     ret' = [fn |-> call.fn, value |-> check,
             report |-> BuildReport(
               << Fulfilled(CheckSmtp("verified")), Fulfilled(CheckImap("verified")),
                  Fulfilled(check),
                  Fulfilled(CheckRoundcubeHealth([reachable |-> TRUE,
                                                  statusCode |-> 200])) >>)]
  /\ UNCHANGED <<cycleVars, maintVars, diagVars, maintLog, fanouts, call>>

\* checkRoundcubeHealth applied to the outcome of its HTTP GET.
ApplyCheckRoundcubeHealth ==
  /\ call.fn = "checkRoundcubeHealth"
  /\ ret = NoRet
  /\ ret' = [fn |-> call.fn, value |-> CheckRoundcubeHealth(call.in)]
  /\ UNCHANGED <<cycleVars, maintVars, diagVars, maintLog, fanouts, call>>

\* logBeforeAfterReport at the end of a run whose four checks had the status
\* call.after and were persisted a moment ago, the earlier runs below them.
ApplyLogBeforeAfterReport ==
  /\ call.fn = "logBeforeAfterReport"
  /\ ret = NoRet
  /\ LET current == [status |-> call.after, old |-> FALSE]
         out == LogBeforeAfterReport(
                  TableRows(<<current>> \o call.runs),
                  [k \in 1..4 |-> Check(CheckNames[k], call.after, "none")])
     IN ret' = [fn |-> call.fn, before |-> out.before, diff |-> out.diff]
  /\ UNCHANGED <<cycleVars, maintVars, diagVars, maintLog, fanouts, call>>

NextPure ==
  \/ ApplyCheckRoundcube
  \/ ApplyCheckNpmPackage
  \/ ApplyCheckSslCertificate
  \/ ApplyCheckRoundcubeHealth
  \/ ApplyLogBeforeAfterReport

\* Each version check and the certificate check, applied once to one input.
SpecPure == InitPure /\ [][NextPure]_vars

\* ------------------------------------------------------------------ claims

\* C1: a trigger received while a cycle is in flight returns 'already in
\* progress' and changes nothing else: no cycle starts while isUpdating holds,
\* the flag is set exactly while a call is suspended, and a step that produces
\* the 'already in progress' outcome leaves the cycle, the maintenance flag,
\* the queue and update_history as they were.
C1_BusyFlagMutualExclusion ==
  /\ [](isUpdating <=> pc # "idle")
  /\ [][isUpdating =>
          /\ cycles' = cycles
          /\ (lastReturn' # lastReturn =>
                \/ /\ lastReturn' = "update-already-in-progress"
                   /\ UNCHANGED <<isUpdating, updateProgress, pc, pending, idx,
                                  results, repairAttempts, diagOverall,
                                  update_history, diagRuns, enterCalls,
                                  failedCmds, caught, maintVars>>
                \/ ~isUpdating')]_vars

\* A trigger was rejected while the first cycle was saving an update's row.
C1_Witness ==
  /\ isUpdating
  /\ pc = "saving"
  /\ lastReturn = "update-already-in-progress"
  /\ Len(results) = 2

\* C2: a cycle whose checking phase finds nothing pending never enters
\* maintenance mode: the step that ends checking with no pending component
\* makes no enterMaintenanceMode call, leaves the flag and the queue as they
\* were, and sets the status done; and whenever enterMaintenanceMode has been
\* called in a cycle, something was pending.
C2_NoMaintenanceWhenUpToDate ==
  /\ [](enterCalls > 0 => pending # <<>>)
  /\ [][(pc = "checking" /\ pc' # "checking" /\ pending' = <<>>) =>
          /\ pc' = "idle"
          /\ updateProgress'.status = "done"
          /\ updateProgress'.message = "up-to-date"
          /\ enterCalls' = 0
          /\ UNCHANGED maintVars]_vars

\* A cycle ended with nothing pending and maintenance mode never entered.
C2_Witness ==
  /\ pc = "idle"
  /\ cycles = 1
  /\ updateProgress.message = "up-to-date"
  /\ enterCalls = 0
  /\ ~maintenanceMode
  /\ ~queuePaused

\* C3: after the install phase diagnostics run at most 1 + 3 times; a re-run
\* happens only after a report whose overall is error; a cycle that ends
\* before the third re-run without an exception ends on a report that is not
\* error; and a cycle whose third re-run still reports error ends failed.
C3_RepairLoopBudget ==
  /\ diagRuns <= 4
  /\ repairAttempts <= 3
  /\ (pc \in {"diagnosing", "backoff"} => diagRuns = repairAttempts + (IF pc = "backoff" THEN 0 ELSE 1))
  /\ (pc = "backoff" \/ (pc = "diagnosing" /\ diagRuns > 1) => diagOverall = "error")
  /\ (pc = "idle" /\ ~caught /\ diagRuns \in 1..3 => diagOverall # "error")
  /\ (pc = "idle" /\ diagRuns = 4 /\ diagOverall = "error" =>
        updateProgress.status = "failed")

\* The third re-run still reported error and the cycle ended failed.
C3_Witness ==
  /\ pc = "idle"
  /\ diagRuns = 4
  /\ repairAttempts = 3
  /\ diagOverall = "error"
  /\ updateProgress.status = "failed"

\* C4: a report's overall is error iff some check is error, warning iff no
\* check is error and some check is warning, ok otherwise, and every
\* reordering of the checks reduces to the same overall.
C4_OverallReduction ==
  report # NoReport =>
    LET c == report.checks
        anyError == \E i \in DOMAIN c : c[i].status = "error"
        anyWarning == \E i \in DOMAIN c : c[i].status = "warning"
    IN /\ (report.overall = "error" <=> anyError)
       /\ (report.overall = "warning" <=> (~anyError /\ anyWarning))
       /\ (report.overall = "ok" <=> (~anyError /\ ~anyWarning))
       /\ \A f \in Permutations(DOMAIN c) :
            Overall([i \in DOMAIN c |-> c[f[i]]]) = report.overall

\* A returned report whose first check is a warning and last check an error.
C4_Witness ==
  /\ dpc = "idle"
  /\ report # NoReport
  /\ report.checks[1].status = "warning"
  /\ report.checks[2].status = "ok"
  /\ report.checks[4].status = "error"
  /\ report.overall = "error"

\* C5: a report is built only when all four checks have settled, and it holds
\* exactly one result per registered check, in registration order, whatever
\* the checks settled to.
C5_OneResultPerCheck ==
  report # NoReport =>
    /\ AllSettled(settled)
    /\ Len(report.checks) = Len(CheckNames)
    /\ \A i \in 1..Len(report.checks) : report.checks[i] = Unwrap(settled[i])

\* A report built from a rejected check, two failed checks and a healthy one.
C5_Witness ==
  /\ report # NoReport
  /\ settled[1].state = "rejected"
  /\ settled[2].value.status = "error"
  /\ settled[3].value.status = "error"
  /\ settled[4].value.status = "ok"
  /\ Len(report.checks) = 4

\* C6: a maintenance helper called again right after the same call (same
\* helper, same outcome of the queue operation) leaves the maintenance flag
\* and the queue's paused state as the first call left them.
C6_MaintenanceIdempotent ==
  [][(/\ maintLog # <<>>
      /\ Len(maintLog') = Len(maintLog) + 1
      /\ maintLog'[Len(maintLog')] = maintLog[Len(maintLog)])
       => UNCHANGED maintVars]_vars

\* enter was called twice in a row, then exit twice in a row.
C6_Witness ==
  /\ maintLog = << [op |-> "enter", ok |-> TRUE], [op |-> "enter", ok |-> TRUE],
                   [op |-> "exit", ok |-> TRUE], [op |-> "exit", ok |-> TRUE] >>
  /\ ~maintenanceMode
  /\ ~queuePaused

\* C7: whenever no cycle is in flight, the maintenance flag is false and the
\* queue is not paused.
C7_NeverLeftPaused ==
  ~isUpdating => (~maintenanceMode /\ ~queuePaused)

\* C8: once the catch block has set the status failed, maintenance mode has
\* been exited and the busy flag cleared.
C8_ExitBeforeFailedVisible ==
  (caught /\ updateProgress.status = "failed") => (~maintenanceMode /\ ~isUpdating)

\* C9: a call that is no longer suspended has cleared the busy flag, and under
\* FairSpec every cycle in flight ends with the flag cleared.
C9_BusyFlagCleared ==
  /\ [](pc = "idle" => ~isUpdating)
  /\ (isUpdating ~> ~isUpdating)

\* A cycle ended by an exception leaving the catch block, the flag cleared.
C9_Witness ==
  /\ lastReturn = "threw"
  /\ caught
  /\ pc = "idle"
  /\ ~isUpdating

\* C10: an update whose command failed is recorded with success = false, with
\* the error text in logOutput, and its update_history row has status failed.
C10_FailedUpdateRecorded ==
  /\ \A i \in DOMAIN results :
       results[i].component \in failedCmds =>
         /\ ~results[i].success
         /\ \E k \in DOMAIN results[i].logOutput : results[i].logOutput[k] = "EXEC ERROR"
  /\ \A j \in DOMAIN update_history :
       update_history[j].component \in failedCmds => update_history[j].status = "failed"

\* C11 as stated: the pending components are updated one at a time in
\* registration order, each gets exactly one UpdateResult, and that result's
\* update_history row is written before the next component starts; the loop
\* runs to its end whatever the commands did.
C11_EveryResultPersisted ==
  /\ Len(results) = idx
  /\ \A i \in 1..Len(results) : results[i].component = pending[i].component
  /\ \A i, j \in DOMAIN pending :
       i < j => \E m, n \in DOMAIN Components :
                  /\ m < n
                  /\ Components[m] = pending[i].component
                  /\ Components[n] = pending[j].component
  /\ Len(update_history) = (IF pc = "saving" THEN idx - 1 ELSE idx)
  /\ \A j \in DOMAIN update_history : update_history[j] = HistoryRow(results[j])
  /\ (idx >= 1 /\ pc # "saving" => idx = Len(pending))

\* C11, amended: the pending components are updated one at a time in
\* registration order; each gets exactly one UpdateResult, recorded before the
\* next component starts, and the INSERT of its update_history row has settled
\* by then, leaving that one row or, when the INSERT failed, none; a failed
\* command does not end the loop.
C11_SequentialUpdates ==
  /\ [](/\ Len(results) = idx
        /\ idx <= Len(pending)
        /\ \A i \in 1..Len(results) : results[i].component = pending[i].component
        /\ \A i, j \in DOMAIN pending :
             i < j => \E m, n \in DOMAIN Components :
                        /\ m < n
                        /\ Components[m] = pending[i].component
                        /\ Components[n] = pending[j].component
        /\ Len(update_history) <= (IF pc = "saving" THEN idx - 1 ELSE idx)
        /\ \A j \in DOMAIN update_history :
             \E i \in 1..idx : update_history[j] = HistoryRow(results[i])
        /\ \A j, k \in DOMAIN update_history :
             j < k => \E a, b \in 1..idx :
                        /\ a < b
                        /\ update_history[j].component = results[a].component
                        /\ update_history[k].component = results[b].component
        /\ (idx >= 1 /\ pc # "saving" => idx = Len(pending)))
  /\ [][pc = "saving" =>
          /\ idx' \in {idx, idx + 1}
          /\ update_history' \in
               {update_history, Append(update_history, HistoryRow(results[idx]))}
          /\ (idx' = idx + 1 => Len(results') = Len(results) + 1)
          /\ (idx' = idx => pc' \in {"saving", "resuming"})]_vars

\* All four components were pending, the command of the second failed, the
\* row of the third was not written, and the loop reached its end.
C11_Witness ==
  /\ pc = "resuming"
  /\ Len(pending) = 4
  /\ Len(results) = 4
  /\ "whatsapp-api" \in failedCmds
  /\ Len(update_history) = 3
  /\ update_history[3].component = "nestjs-core"

\* C12: a version check reports updateAvailable exactly when both versions
\* were resolved (neither is 'unknown') and they differ.
C12_FailSafeVersionCheck ==
  ret.fn \in {"checkRoundcube", "checkNpmPackage"} =>
    LET r == ret.value
        resolved == r.currentVersion # "unknown" /\ r.latestVersion # "unknown"
    IN r.updateAvailable <=> (resolved /\ r.currentVersion # r.latestVersion)

\* C13: a cycle that installed updates and ended on a diagnostics report ends
\* done exactly when that report is ok or warning and failed exactly when it is
\* error, and done is never reached after installing without a diagnostics run.
C13_FinalStatusFollowsDiagnostics ==
  /\ (pc = "idle" /\ pending # <<>> /\ ~caught) =>
       /\ diagRuns >= 1
       /\ (updateProgress.status = "done" <=> diagOverall \in {"ok", "warning"})
       /\ (updateProgress.status = "failed" <=> diagOverall = "error")
  /\ (pending # <<>> /\ updateProgress.status = "done" => diagRuns >= 1)

\* C14: POST /updater/run answers 'accepted' when its call started a cycle and
\* 'already in progress' when the orchestrator was busy.
C14_RejectedNeverAccepted ==
  response # NoResponse =>
    response.status = (IF response.started THEN "accepted" ELSE "already in progress")

\* C15: no run of the diagnostics was started by the cron job while the
\* maintenance flag was set, so a run that starts in maintenance mode, and any
\* row it persists, comes from POST /diagnostics/run; and the manual trigger
\* can start a run whenever the engine is idle, in maintenance mode or not.
C15_ScheduledGatedManualNot ==
  /\ [](launch.source = "cron" => ~launch.maintenance)
  /\ [](dpc = "idle" => ENABLED RunDiagnostics)
  /\ [][(maintenanceMode /\ dpc = "idle" /\ dpc' # "idle") =>
          launch' = Launch("api", TRUE)]_vars

\* A run started by POST /diagnostics/run in maintenance mode has persisted
\* its four rows and returned, the flag still set.
C15_Witness ==
  /\ maintenanceMode
  /\ launch = Launch("api", TRUE)
  /\ dpc = "idle"
  /\ Len(mail_diagnostics) = 4

\* C16: the progress percentage is always within 0..100 and never decreases
\* within one cycle.
C16_ProgressMonotone ==
  /\ [](updateProgress.progress \in 0..100)
  /\ [][cycles' = cycles => updateProgress'.progress >= updateProgress.progress]_vars

\* Four pending components, three repair attempts, and the cycle ended failed
\* at 100.
C16_Witness ==
  /\ Len(pending) = 4
  /\ repairAttempts = 3
  /\ diagRuns = 4
  /\ updateProgress.progress = 100
  /\ updateProgress.status = "failed"
  /\ pc = "idle"

\* C17: the status moves only along idle -> checking -> installing ->
\* repairing -> done | failed (checking -> done when nothing is pending, failed
\* from the exception path), and a terminal status is left only by a new
\* cycle, which resets the record to idle before it becomes checking.
C17_ProgressStateMachine ==
  [][updateProgress'.status # updateProgress.status =>
       /\ <<updateProgress.status, updateProgress'.status>> \in
            { <<"idle", "checking">>, <<"checking", "installing">>,
              <<"checking", "done">>, <<"installing", "repairing">>,
              <<"repairing", "done">>, <<"repairing", "failed">>,
              <<"checking", "failed">>, <<"installing", "failed">>,
              <<"done", "idle">>, <<"failed", "idle">> }
       /\ (updateProgress.status \in {"done", "failed"} => cycles' = cycles + 1)]_vars

\* C18: no checkAndInstallAll call and no runFullDiagnostics call ends by an
\* exception reaching its caller.
C18_NothingRaises ==
  /\ lastReturn # "threw"
  /\ ~raised

\* C19: at most one runFullDiagnostics execution is in flight.
C19_SingleFanout ==
  FanoutsInFlight <= 1

\* C20: the certificate check gives ok for d > 14, warning for 7 <= d <= 14 and
\* error for d < 7 or an unreachable peer; for d = 5 the repair returns its
\* alert tag and the report's overall is error.
C20_CertificateThresholds ==
  ret.fn = "checkSslCertificate" =>
    LET d == call.in.days IN
    /\ ret.value.status =
         (IF ~call.in.reachable THEN "error"
          ELSE IF d > 14 THEN "ok"
          ELSE IF d >= 7 THEN "warning"
          ELSE "error")
    /\ (call.in.reachable /\ d = 5 =>
          /\ ret.report.repairsAttempted = <<"ssl-alert-logged">>
          /\ ret.report.overall = "error")

\* C21: repairsAttempted holds exactly one tag for every check that is error
\* and has a mapped repair, in the order of the checks, and none for a check
\* that is ok or warning or of unknown type; when all checks are ok it is
\* empty and overall is ok.
C21_RepairPerFailedCheck ==
  report # NoReport =>
    LET c == report.checks
        tags == report.repairsAttempted
        repaired == { i \in DOMAIN c : c[i].status = "error" /\ c[i].checkType # "unknown" }
        tagOf == [t \in {"smtp_send", "imap_login", "ssl_cert", "roundcube_health"} |->
                    IF t = "smtp_send" THEN "smtp-transporter-reinitialised"
                    ELSE IF t = "imap_login" THEN "imap-connection-pool-reset"
                    ELSE IF t = "ssl_cert" THEN "ssl-alert-logged"
                    ELSE "roundcube-container-auto-restart-pending"]
    IN /\ Len(tags) = Cardinality(repaired)
       /\ \A i \in repaired :
            tags[Cardinality({ j \in repaired : j <= i })] = tagOf[c[i].checkType]
       /\ ((\A i \in DOMAIN c : c[i].status = "ok") =>
             tags = <<>> /\ report.overall = "ok")

\* A rejected check (unknown type), a warning, and two failed checks: two tags.
C21_Witness ==
  /\ report # NoReport
  /\ report.checks[1].checkType = "unknown"
  /\ report.checks[2].status = "warning"
  /\ report.checks[3].status = "error"
  /\ report.checks[4].status = "error"
  /\ report.repairsAttempted =
       <<"ssl-alert-logged", "roundcube-container-auto-restart-pending">>

\* C22: a result a health check returned carries an error message exactly
\* when its status is error.
C22_ErrorMessageIffError ==
  \A i \in DOMAIN settled :
    settled[i].state = "fulfilled" =>
      (settled[i].value.errorMsg # "none" <=> settled[i].value.status = "error")

\* C23: the web-frontend check gives ok for a 2xx code, warning for 3xx and
\* 4xx, and error for any other code and for a timeout or failed connection.
C23_HttpClassification ==
  ret.fn = "checkRoundcubeHealth" =>
    LET code == call.in.statusCode IN
    ret.value.status =
      (IF ~call.in.reachable THEN "error"
       ELSE IF code \in 200..299 THEN "ok"
       ELSE IF code \in 300..499 THEN "warning"
       ELSE "error")

\* C25: with an earlier run in the table, the status taken as 'before' for each
\* check type is the one of the most recent earlier run, and a diff line is
\* reported for exactly the check types whose status differs from it.
C25_ComparesWithLatestPrior ==
  (ret.fn = "logBeforeAfterReport" /\ call.runs # <<>>) =>
    LET latest == call.runs[1].status IN
    /\ \A t \in DOMAIN ret.before : ret.before[t] = latest
    /\ \A k \in DOMAIN CheckNames :
         (\E n \in DOMAIN ret.diff : ret.diff[n].checkType = CheckNames[k])
           <=> latest # call.after

\* C24: in a cycle with an update pending, once an update has been applied
\* maintenance mode has been entered and a diagnostics snapshot has been taken
\* before it.
C24_BeforeSnapshotPrecedesUpdates ==
  pc = "saving" => (enterCalls >= 1 /\ maintenanceMode /\ diagRuns >= 1)

\* C26: every cycle that is checking versions leaves the checking phase and
\* ends with the busy flag cleared, also when a registry never answers.
C26_VersionChecksResolve ==
  (pc = "checking") ~> (pc = "idle" /\ ~isUpdating)

\* C27: whenever an update has been applied and the loop has not moved on, the
\* maintenance flag is true and the queue is paused; every step that applies
\* an update starts with the flag set and has the queue paused; the exit from
\* maintenance mode begins only after the last pending update was applied and
\* saved, and the flag and the queue are released only by that exit or the
\* catch block's.
C27_UpdatesInsideMaintenance ==
  /\ [](pc = "saving" => (maintenanceMode /\ queuePaused))
  /\ [][Len(results') > Len(results) =>
          (maintenanceMode /\ maintenanceMode' /\ queuePaused')]_vars
  /\ [][(pc # "resuming" /\ pc' = "resuming") =>
          (pc = "saving" /\ idx = Len(pending) /\ Len(results) = Len(pending))]_vars
  /\ [][((maintenanceMode /\ ~maintenanceMode') \/ (queuePaused /\ ~queuePaused')) =>
          pc \in {"resuming", "catch_resuming"}]_vars

\* The second of two pending updates has been applied inside maintenance mode.
C27_Witness ==
  /\ pc = "saving"
  /\ idx = 2
  /\ Len(results) = 2
  /\ maintenanceMode
  /\ queuePaused

\* C28: while the maintenance flag is true no scheduled runFullDiagnostics is
\* in flight.
C28_NoScheduledRunInMaintenance ==
  maintenanceMode => fanouts["cron"] = 0

\* C29: a cycle that finds nothing pending changes nothing but the progress
\* record: its first step and its last leave the flag, the queue and the
\* diagnostics engine alone; it ends with no update_history row, no
\* diagnostics run, no maintenance call, an empty result list, the
\* diagnosticsStatus ok and the busy flag cleared.
C29_UpToDateCycleFrame ==
  /\ []((pc = "idle" /\ cycles > 0 /\ updateProgress.message = "up-to-date") =>
          /\ update_history = <<>>
          /\ results = <<>>
          /\ diagRuns = 0
          /\ enterCalls = 0
          /\ lastReturn = "ok"
          /\ ~isUpdating)
  /\ [][(pc = "idle" /\ pc' = "checking") =>
          UNCHANGED <<maintVars, diagVars, maintLog>>]_vars
  /\ [][(pc = "checking" /\ pc' = "idle") =>
          /\ UNCHANGED <<maintVars, diagVars, maintLog, update_history, results,
                         diagRuns, enterCalls>>
          /\ results' = <<>>
          /\ lastReturn' = "ok"
          /\ ~isUpdating']_vars

\* The second cycle ended up to date, with no row, no run and no result.
C29_Witness ==
  /\ pc = "idle"
  /\ cycles = 2
  /\ updateProgress.status = "done"
  /\ updateProgress.message = "up-to-date"
  /\ lastReturn = "ok"
  /\ update_history = <<>>
  /\ diagRuns = 0
  /\ ~isUpdating

\* C30: whenever the busy flag is false, the status getProgress returns is
\* idle, done or failed.
C30_IdleProgressIsTerminal ==
  ~isUpdating => updateProgress.status \in {"idle", "done", "failed"}

\* A cycle ended by an exception out of the catch block: the status is failed
\* at 100 and the flag is cleared.
C30_Witness ==
  /\ ~isUpdating
  /\ cycles >= 1
  /\ lastReturn = "threw"
  /\ updateProgress.status = "failed"
  /\ updateProgress.progress = 100

====
